---- MODULE Spec2Model ----
(***************************************************************************)
(* The Bar trace of plotly (src/plotly/src/traces/bar.rs): a configuration *)
(* with a fixed type tag, the data x and y and 32 optional attributes, a   *)
(* fluent setter per attribute (two for each Dim-typed attribute) and      *)
(* to_json, which serializes the configuration with serde_json.            *)
(*                                                                         *)
(* Encoding of the Rust values:                                            *)
(*   Option<T>   None is <<>>, Some(v) is <<v>>                            *)
(*   Dim<T>      [shape |-> "Scalar" or "Vector", items |-> sequence]      *)
(*   f64         [nan |-> BOOLEAN, milli |-> thousandths]                  *)
(*   an element of x or y   [n |-> integer, fails |-> its Serialize errs]  *)
(*   JSON        the text serde_json writes; a document is the sequence of *)
(*               its entries [k |-> key, v |-> text of the value]          *)
(***************************************************************************)
EXTENDS Integers, Sequences, FiniteSets, TLC

VARIABLES
    bar,      \* the configuration (the Bar value the caller owns)
    ctor,     \* the constructor call that made it, with its arguments
    hist,     \* per optional attribute: the value of the latest setter call on it
    calls,    \* number of setter calls so far
    out,      \* what to_json returned for the current configuration, if called
    repeated, \* to_json has been called more than once on the current configuration
    pc        \* "ready", or "panicked" once an unwrap has failed

vars == <<bar, ctor, hist, calls, out, repeated, pc>>

\* Longest chain of setter calls explored.
MaxCalls == 2

None == <<>>
Some(v) == <<v>>

Scalar(v) == [shape |-> "Scalar", items |-> <<v>>]
Vector(s) == [shape |-> "Vector", items |-> s]

-----------------------------------------------------------------------------
(* The values the calls are made with. *)

Elem(n) == [n |-> n, fails |-> FALSE]
\* An element whose Serialize implementation returns an error.
Unencodable == [n |-> 0, fails |-> TRUE]

\* The (x, y) pairs Bar::new is called with.
NewArgs ==
    { << <<>>, <<Elem(3), Elem(4)>> >>,
      << <<Elem(1), Elem(2)>>, <<Elem(3), Unencodable>> >> }

Names == {"", "Bar"}
Texts == {"text"}
Groups == {"group"}
Axes == {"x2"}
StrVecs == {<<"tmpl1", "tmpl2">>}
Finite(m) == [nan |-> FALSE, milli |-> m]
NaN == [nan |-> TRUE, milli |-> 0]
Opacities == {Finite(500), NaN}
Angles == {Finite(50)}
Widths == {999}
Offsets == {5}
UsizeVecs == {<<>>, <<5, 5>>}
Visibles == {"LegendOnly"}
HoverInfos == {"All"}
Orientations == {"Vertical"}
ConstrainTexts == {"Both"}
TextAnchors == {"End"}
TextPositions == {"None"}
TextPositionVecs == {<<"None">>}
XCalendars == {"Nanakshahi"}
YCalendars == {"Ummalqura"}

\* Marker::new(), Font::new(), Label::new(): a sub-configuration with none of
\* its own fields set, as the sequence of its present entries.
EmptySub == <<>>
\* ErrorData::new(t): only the error type is set.
ErrorDataNew(t) == <<[k |-> "type", ty |-> "ErrorType", val |-> t]>>
Markers == {EmptySub}
Fonts == {EmptySub}
Labels == {EmptySub}
XErrors == {ErrorDataNew("Constant")}
YErrors == {ErrorDataNew("Percent")}

to_owned(s) == s
owned_string_vector(s) == [i \in 1..Len(s) |-> to_owned(s[i])]

-----------------------------------------------------------------------------
(* struct Bar: the fields in declaration order with the type each holds, and *)
(* the #[serde(rename = ...)] annotations.                                     *)

Struct ==
    << [name |-> "type",               ty |-> "PlotType"],
       [name |-> "x",                  ty |-> "Vec<X>"],
       [name |-> "y",                  ty |-> "Vec<Y>"],
       [name |-> "name",               ty |-> "String"],
       [name |-> "visible",            ty |-> "Visible"],
       [name |-> "show_legend",        ty |-> "bool"],
       [name |-> "legend_group",       ty |-> "String"],
       [name |-> "opacity",            ty |-> "f64"],
       [name |-> "ids",                ty |-> "Vec<String>"],
       [name |-> "width",              ty |-> "usize"],
       [name |-> "offset",             ty |-> "Dim<usize>"],
       [name |-> "text",               ty |-> "Dim<String>"],
       [name |-> "text_position",      ty |-> "Dim<TextPosition>"],
       [name |-> "text_template",      ty |-> "Dim<String>"],
       [name |-> "hover_text",         ty |-> "Dim<String>"],
       [name |-> "hover_info",         ty |-> "HoverInfo"],
       [name |-> "hover_template",     ty |-> "Dim<String>"],
       [name |-> "x_axis",             ty |-> "String"],
       [name |-> "y_axis",             ty |-> "String"],
       [name |-> "orientation",        ty |-> "Orientation"],
       [name |-> "alignment_group",    ty |-> "String"],
       [name |-> "offset_group",       ty |-> "String"],
       [name |-> "marker",             ty |-> "Marker"],
       [name |-> "text_angle",         ty |-> "f64"],
       [name |-> "text_font",          ty |-> "Font"],
       [name |-> "error_x",            ty |-> "ErrorData"],
       [name |-> "error_y",            ty |-> "ErrorData"],
       [name |-> "clip_on_axis",       ty |-> "bool"],
       [name |-> "constrain_text",     ty |-> "ConstrainText"],
       [name |-> "hover_label",        ty |-> "Label"],
       [name |-> "inside_text_anchor", ty |-> "TextAnchor"],
       [name |-> "inside_text_font",   ty |-> "Font"],
       [name |-> "outside_text_font",  ty |-> "Font"],
       [name |-> "x_calendar",         ty |-> "Calendar"],
       [name |-> "y_calendar",         ty |-> "Calendar"] >>

\* A rename copied from the neighbouring field: two fields share a wire key.
serde_rename_copied(name) ==
    IF name \in {"hover_text", "hover_template"} THEN "hovertemplate" ELSE name

\* The wire key of a field: its rename if it has one, else its own name.
serde_rename(name) ==
    CASE name = "show_legend"        -> "showlegend"
      [] name = "legend_group"       -> "legendgroup"
      [] name = "text_position"      -> "textposition"
      [] name = "text_template"      -> "texttemplate"
      [] name = "hover_text"         -> "hovertext"
      [] name = "hover_info"         -> "hoverinfo"
      [] name = "hover_template"     -> "hovertemplate"
      [] name = "x_axis"             -> "xaxis"
      [] name = "y_axis"             -> "yaxis"
      [] name = "alignment_group"    -> "alignmentgroup"
      [] name = "offset_group"       -> "offsetgroup"
      [] name = "text_angle"         -> "textangle"
      [] name = "text_font"          -> "textfont"
      [] name = "clip_on_axis"       -> "cliponaxis"
      [] name = "constrain_text"     -> "constraintext"
      [] name = "hover_label"        -> "hoverlabel"
      [] name = "inside_text_anchor" -> "insidetextanchor"
      [] name = "inside_text_font"   -> "insidetextfont"
      [] name = "outside_text_font"  -> "outsidetextfont"
      [] name = "x_calendar"         -> "xcalendar"
      [] name = "y_calendar"         -> "ycalendar"
      [] OTHER -> name

Fields ==
    [i \in 1..Len(Struct) |->
        [name |-> Struct[i].name, key |-> serde_rename(Struct[i].name), ty |-> Struct[i].ty]]

\* The Option-typed fields, and those of them that have a setter.
OptionFields == {i \in 1..Len(Fields) : Fields[i].ty # "PlotType"}
Attrs == {Fields[i].name : i \in OptionFields} \ {"x", "y"}
DimAttrs == {Fields[i].name : i \in {j \in OptionFields :
                Fields[j].ty \in {"Dim<usize>", "Dim<String>", "Dim<TextPosition>"}}}
NestedAttrs == {Fields[i].name : i \in {j \in OptionFields :
                Fields[j].ty \in {"Marker", "Font", "Label"}}}

-----------------------------------------------------------------------------
(* Constructors. *)

\* The tag of another trace type left in the constructor.
default_other_trace == [a \in {"type"} \cup {Struct[i].name : i \in 2..Len(Struct)} |->
                           IF a = "type" THEN "Scatter" ELSE None]

default ==
    [ type |-> "Bar", x |-> None, y |-> None, name |-> None, visible |-> None,
      show_legend |-> None, legend_group |-> None, opacity |-> None, ids |-> None,
      width |-> None, offset |-> None, text |-> None, text_position |-> None,
      text_template |-> None, hover_text |-> None, hover_info |-> None,
      hover_template |-> None, x_axis |-> None, y_axis |-> None,
      orientation |-> None, alignment_group |-> None, offset_group |-> None,
      marker |-> None, text_angle |-> None, text_font |-> None, error_x |-> None,
      error_y |-> None, clip_on_axis |-> None, constrain_text |-> None,
      hover_label |-> None, inside_text_anchor |-> None, inside_text_font |-> None,
      outside_text_font |-> None, x_calendar |-> None, y_calendar |-> None ]

\* y is left at its default.
new_without_y(x, y) == [default EXCEPT !.x = Some(x)]

new(x, y) == [default EXCEPT !.x = Some(x), !.y = Some(y)]

-----------------------------------------------------------------------------
(* Serialization: #[derive(Serialize)] with #[serde_with::skip_serializing_none] *)
(* on Bar, written by serde_json::to_string.                                      *)

Ok(t, kind) == [ok |-> TRUE, text |-> t, kind |-> kind]
Err == [ok |-> FALSE, text |-> "", kind |-> "error"]

Quote(s) == "\"" \o s \o "\""

\* The fixed string of an enumerated value.
EnumName(ty, variant) ==
    CASE ty = "PlotType"      /\ variant = "Bar"        -> "bar"
      [] ty = "Visible"       /\ variant = "LegendOnly" -> "legendonly"
      [] ty = "HoverInfo"     /\ variant = "All"        -> "all"
      [] ty = "Orientation"   /\ variant = "Vertical"   -> "v"
      [] ty = "ConstrainText" /\ variant = "Both"       -> "both"
      [] ty = "TextAnchor"    /\ variant = "End"        -> "end"
      [] ty = "TextPosition"  /\ variant = "None"       -> "none"
      [] ty = "Calendar"      /\ variant = "Nanakshahi" -> "nanakshahi"
      [] ty = "Calendar"      /\ variant = "Ummalqura"  -> "ummalqura"
      [] ty = "ErrorType"     /\ variant = "Constant"   -> "constant"
      [] ty = "ErrorType"     /\ variant = "Percent"    -> "percent"

\* serde_json writes a finite f64 in decimal and a NaN or infinity as null.
FormatF64(v) ==
    LET whole == v.milli \div 1000
        d1 == (v.milli % 1000) \div 100
        d2 == (v.milli % 100) \div 10
        d3 == v.milli % 10
        frac == IF d3 # 0 THEN ToString(d1) \o ToString(d2) \o ToString(d3)
                ELSE IF d2 # 0 THEN ToString(d1) \o ToString(d2)
                ELSE ToString(d1)
    IN  IF v.nan THEN "null" ELSE ToString(whole) \o "." \o frac

RECURSIVE JoinFrom(_, _)
JoinFrom(texts, i) ==
    IF i > Len(texts) THEN ""
    ELSE IF i = Len(texts) THEN texts[i]
    ELSE texts[i] \o "," \o JoinFrom(texts, i + 1)

JsonArray(texts) == "[" \o JoinFrom(texts, 1) \o "]"
JsonObject(entries) ==
    "{" \o JoinFrom([i \in 1..Len(entries) |->
                        Quote(entries[i].k) \o ":" \o entries[i].v], 1) \o "}"

\* A value that cannot fail to serialize: the JSON text of a scalar of type ty,
\* and the kind of JSON value it is.
ScalarText(ty, v) ==
    CASE ty = "String" -> Quote(v)
      [] ty = "bool"   -> IF v THEN "true" ELSE "false"
      [] ty = "usize"  -> ToString(v)
      [] ty = "f64"    -> FormatF64(v)
      [] OTHER         -> Quote(EnumName(ty, v))

ScalarKind(ty, v) ==
    CASE ty = "bool"   -> "bool"
      [] ty = "usize"  -> "number"
      [] ty = "f64"    -> IF v.nan THEN "null" ELSE "number"
      [] OTHER         -> "string"

\* A sequence (Vec<T>): an array of its elements, or the first element's error.
SerializeSeq(ty, s) ==
    IF ty = "X"
    THEN IF \E i \in 1..Len(s) : s[i].fails THEN Err
         ELSE Ok(JsonArray([i \in 1..Len(s) |-> ToString(s[i].n)]), "array")
    ELSE Ok(JsonArray([i \in 1..Len(s) |-> ScalarText(ty, s[i])]), "array")

\* Dim<T>: Scalar(v) is written as v, Vector(s) as an array.
DimSerialize(ty, d) ==
    IF d.shape = "Scalar" THEN Ok(ScalarText(ty, d.items[1]), ScalarKind(ty, d.items[1]))
    ELSE SerializeSeq(ty, d.items)

\* A nested sub-configuration (Marker, Font, Label, ErrorData): the object of
\* its present entries.
SubSerialize(sub) ==
    Ok(JsonObject([i \in 1..Len(sub) |->
                     [k |-> sub[i].k, v |-> ScalarText(sub[i].ty, sub[i].val)]]),
       "object")

SerializeValue(ty, v) ==
    CASE ty \in {"Vec<X>", "Vec<Y>"}   -> SerializeSeq("X", v)
      [] ty = "Vec<String>"            -> SerializeSeq("String", v)
      [] ty = "Dim<usize>"             -> DimSerialize("usize", v)
      [] ty = "Dim<String>"            -> DimSerialize("String", v)
      [] ty = "Dim<TextPosition>"      -> DimSerialize("TextPosition", v)
      [] ty \in {"Marker", "Font", "Label", "ErrorData"} -> SubSerialize(v)
      [] OTHER                         -> Ok(ScalarText(ty, v), ScalarKind(ty, v))

\* Option<T>: None is written as null, Some(v) as v.
SerializeOption(ty, opt) ==
    IF opt = None THEN Ok("null", "null") ELSE SerializeValue(ty, opt[1])

\* Without the attribute nothing is skipped.
never_skip(f, opt) == FALSE

\* skip_serializing_none: every Option field gets
\* skip_serializing_if = "Option::is_none".
skip_serializing_none(f, opt) == f.ty # "PlotType" /\ opt = None

\* The derived Serialize for Bar: the fields in declaration order, each one
\* skipped or written under its key; the first error ends the serialization.
RECURSIVE SerializeFrom(_, _, _)
SerializeFrom(b, i, acc) ==
    IF i > Len(Fields) THEN [ok |-> TRUE, doc |-> acc]
    ELSE LET f == Fields[i]
             slot == b[f.name]
         IN  IF skip_serializing_none(f, slot)
             THEN SerializeFrom(b, i + 1, acc)
             ELSE LET r == IF f.ty = "PlotType" THEN SerializeValue(f.ty, slot)
                           ELSE SerializeOption(f.ty, slot)
                  IN  IF r.ok
                      THEN SerializeFrom(b, i + 1,
                              Append(acc, [k |-> f.key, v |-> r.text, kind |-> r.kind]))
                      ELSE [ok |-> FALSE, doc |-> <<>>]

Serialize(b) == SerializeFrom(b, 1, <<>>)

\* serde_json::to_string: the text of the document, or the error.
to_string(b) ==
    LET r == Serialize(b)
    IN  IF r.ok THEN [ok |-> TRUE, doc |-> r.doc, text |-> JsonObject(r.doc)]
        ELSE [ok |-> FALSE, doc |-> <<>>, text |-> ""]

Keys(doc) == {doc[i].k : i \in 1..Len(doc)}
Entry(doc, key) == doc[CHOOSE i \in 1..Len(doc) : doc[i].k = key]
WireKeys ==
    [a \in {Fields[i].name : i \in 1..Len(Fields)} |->
        Fields[CHOOSE i \in 1..Len(Fields) : Fields[i].name = a].key]
WireKey(attr) == WireKeys[attr]

-----------------------------------------------------------------------------
(* The program. *)

NoCalls == [a \in Attrs |-> None]

Init ==
    /\ \/ /\ bar = default
          /\ ctor = [op |-> "default", x |-> <<>>, y |-> <<>>]
       \/ \E xy \in NewArgs :
             /\ bar = new(xy[1], xy[2])
             /\ ctor = [op |-> "new", x |-> xy[1], y |-> xy[2]]
    /\ hist = NoCalls
    /\ calls = 0
    /\ out = None
    /\ repeated = FALSE
    /\ pc = "ready"

\* What every setter does besides its assignment: it consumes the receiver and
\* returns the new configuration, of which nothing has been serialized yet.
Called(attr, v) ==
    /\ pc = "ready"
    /\ calls < MaxCalls
    /\ calls' = calls + 1
    /\ hist' = [hist EXCEPT ![attr] =
                    Some([val |-> v,
                          prior |-> IF hist[attr] = None THEN None
                                    ELSE Some(hist[attr][1].val)])]
    /\ out' = None
    /\ repeated' = FALSE
    /\ UNCHANGED <<ctor, pc>>

alignment_group ==
    \E v \in Groups :
        /\ bar' = [bar EXCEPT !.alignment_group = Some(to_owned(v))]
        /\ Called("alignment_group", v)

clip_on_axis ==
    \E v \in {TRUE} :
        /\ bar' = [bar EXCEPT !.clip_on_axis = Some(v)]
        /\ Called("clip_on_axis", v)

constrain_text ==
    \E v \in ConstrainTexts :
        /\ bar' = [bar EXCEPT !.constrain_text = Some(v)]
        /\ Called("constrain_text", v)

error_x ==
    \E v \in XErrors :
        /\ bar' = [bar EXCEPT !.error_x = Some(v)]
        /\ Called("error_x", v)

error_y ==
    \E v \in YErrors :
        /\ bar' = [bar EXCEPT !.error_y = Some(v)]
        /\ Called("error_y", v)

hover_info ==
    \E v \in HoverInfos :
        /\ bar' = [bar EXCEPT !.hover_info = Some(v)]
        /\ Called("hover_info", v)

hover_label ==
    \E v \in Labels :
        /\ bar' = [bar EXCEPT !.hover_label = Some(v)]
        /\ Called("hover_label", v)

hover_template ==
    \E v \in Texts :
        /\ bar' = [bar EXCEPT !.hover_template = Some(Scalar(to_owned(v)))]
        /\ Called("hover_template", Scalar(v))

\* The array setter writes the neighbouring slot.
hover_template_array_other_slot ==
    \E v \in StrVecs :
        /\ bar' = [bar EXCEPT !.hover_text = Some(Vector(owned_string_vector(v)))]
        /\ Called("hover_template", Vector(v))

hover_template_array ==
    \E v \in StrVecs :
        /\ bar' = [bar EXCEPT !.hover_template = Some(Vector(owned_string_vector(v)))]
        /\ Called("hover_template", Vector(v))

hover_text ==
    \E v \in Texts :
        /\ bar' = [bar EXCEPT !.hover_text = Some(Scalar(to_owned(v)))]
        /\ Called("hover_text", Scalar(v))

hover_text_array ==
    \E v \in StrVecs :
        /\ bar' = [bar EXCEPT !.hover_text = Some(Vector(owned_string_vector(v)))]
        /\ Called("hover_text", Vector(v))

ids ==
    \E v \in StrVecs :
        /\ bar' = [bar EXCEPT !.ids = Some(owned_string_vector(v))]
        /\ Called("ids", v)

inside_text_anchor ==
    \E v \in TextAnchors :
        /\ bar' = [bar EXCEPT !.inside_text_anchor = Some(v)]
        /\ Called("inside_text_anchor", v)

inside_text_font ==
    \E v \in Fonts :
        /\ bar' = [bar EXCEPT !.inside_text_font = Some(v)]
        /\ Called("inside_text_font", v)

legend_group ==
    \E v \in Groups :
        /\ bar' = [bar EXCEPT !.legend_group = Some(to_owned(v))]
        /\ Called("legend_group", v)

\* A marker with nothing set is treated as no marker.
marker_drops_empty ==
    \E v \in Markers :
        /\ bar' = [bar EXCEPT !.marker = IF v = EmptySub THEN None ELSE Some(v)]
        /\ Called("marker", v)

marker ==
    \E v \in Markers :
        /\ bar' = [bar EXCEPT !.marker = Some(v)]
        /\ Called("marker", v)

name ==
    \E v \in Names :
        /\ bar' = [bar EXCEPT !.name = Some(to_owned(v))]
        /\ Called("name", v)

show_legend ==
    \E v \in BOOLEAN :
        /\ bar' = [bar EXCEPT !.show_legend = Some(v)]
        /\ Called("show_legend", v)

text ==
    \E v \in Texts :
        /\ bar' = [bar EXCEPT !.text = Some(Scalar(to_owned(v)))]
        /\ Called("text", Scalar(v))

text_array ==
    \E v \in StrVecs :
        /\ bar' = [bar EXCEPT !.text = Some(Vector(owned_string_vector(v)))]
        /\ Called("text", Vector(v))

text_angle ==
    \E v \in Angles :
        /\ bar' = [bar EXCEPT !.text_angle = Some(v)]
        /\ Called("text_angle", v)

text_position ==
    \E v \in TextPositions :
        /\ bar' = [bar EXCEPT !.text_position = Some(Scalar(v))]
        /\ Called("text_position", Scalar(v))

text_position_array ==
    \E v \in TextPositionVecs :
        /\ bar' = [bar EXCEPT !.text_position = Some(Vector(v))]
        /\ Called("text_position", Vector(v))

text_template ==
    \E v \in Texts :
        /\ bar' = [bar EXCEPT !.text_template = Some(Scalar(to_owned(v)))]
        /\ Called("text_template", Scalar(v))

text_template_array ==
    \E v \in StrVecs :
        /\ bar' = [bar EXCEPT !.text_template = Some(Vector(owned_string_vector(v)))]
        /\ Called("text_template", Vector(v))

offset ==
    \E v \in Offsets :
        /\ bar' = [bar EXCEPT !.offset = Some(Scalar(v))]
        /\ Called("offset", Scalar(v))

\* An empty vector clears the attribute.
offset_array_empty_clears ==
    \E v \in UsizeVecs :
        /\ bar' = [bar EXCEPT !.offset = IF v = <<>> THEN None ELSE Some(Vector(v))]
        /\ Called("offset", Vector(v))

offset_array ==
    \E v \in UsizeVecs :
        /\ bar' = [bar EXCEPT !.offset = Some(Vector(v))]
        /\ Called("offset", Vector(v))

offset_group ==
    \E v \in Groups :
        /\ bar' = [bar EXCEPT !.offset_group = Some(to_owned(v))]
        /\ Called("offset_group", v)

opacity ==
    \E v \in Opacities :
        /\ bar' = [bar EXCEPT !.opacity = Some(v)]
        /\ Called("opacity", v)

orientation ==
    \E v \in Orientations :
        /\ bar' = [bar EXCEPT !.orientation = Some(v)]
        /\ Called("orientation", v)

outside_text_font ==
    \E v \in Fonts :
        /\ bar' = [bar EXCEPT !.outside_text_font = Some(v)]
        /\ Called("outside_text_font", v)

text_font ==
    \E v \in Fonts :
        /\ bar' = [bar EXCEPT !.text_font = Some(v)]
        /\ Called("text_font", v)

visible ==
    \E v \in Visibles :
        /\ bar' = [bar EXCEPT !.visible = Some(v)]
        /\ Called("visible", v)

width ==
    \E v \in Widths :
        /\ bar' = [bar EXCEPT !.width = Some(v)]
        /\ Called("width", v)

x_axis ==
    \E v \in Axes :
        /\ bar' = [bar EXCEPT !.x_axis = Some(to_owned(v))]
        /\ Called("x_axis", v)

x_calendar ==
    \E v \in XCalendars :
        /\ bar' = [bar EXCEPT !.x_calendar = Some(v)]
        /\ Called("x_calendar", v)

\* The setter writes the x axis.
y_axis_sets_x_axis ==
    \E v \in Axes :
        /\ bar' = [bar EXCEPT !.x_axis = Some(to_owned(v))]
        /\ Called("y_axis", v)

y_axis ==
    \E v \in Axes :
        /\ bar' = [bar EXCEPT !.y_axis = Some(to_owned(v))]
        /\ Called("y_axis", v)

y_calendar ==
    \E v \in YCalendars :
        /\ bar' = [bar EXCEPT !.y_calendar = Some(v)]
        /\ Called("y_calendar", v)

\* Serializing takes the data out of the configuration.
to_json_takes_x ==
    /\ pc = "ready"
    /\ \E r \in {to_string(bar)} :
          IF r.ok
          THEN /\ out' = Some([doc |-> r.doc, text |-> r.text])
               /\ repeated' = (out # None)
               /\ pc' = pc
          ELSE /\ pc' = "panicked"
               /\ UNCHANGED <<out, repeated>>
    /\ bar' = [bar EXCEPT !.x = None]
    /\ UNCHANGED <<ctor, hist, calls>>

to_json ==
    /\ pc = "ready"
    /\ \E r \in {to_string(bar)} :
          IF r.ok
          THEN /\ out' = Some([doc |-> r.doc, text |-> r.text])
               /\ repeated' = (out # None)
               /\ pc' = pc
          ELSE /\ pc' = "panicked"
               /\ UNCHANGED <<out, repeated>>
    /\ UNCHANGED <<bar, ctor, hist, calls>>

\* The caller's next step: any setter, or to_json.
Next ==
    \/ alignment_group
    \/ clip_on_axis
    \/ constrain_text
    \/ error_x
    \/ error_y
    \/ hover_info
    \/ hover_label
    \/ hover_template
    \/ hover_template_array
    \/ hover_text
    \/ hover_text_array
    \/ ids
    \/ inside_text_anchor
    \/ inside_text_font
    \/ legend_group
    \/ marker
    \/ name
    \/ show_legend
    \/ text
    \/ text_array
    \/ text_angle
    \/ text_position
    \/ text_position_array
    \/ text_template
    \/ text_template_array
    \/ offset
    \/ offset_array
    \/ offset_group
    \/ opacity
    \/ orientation
    \/ outside_text_font
    \/ text_font
    \/ visible
    \/ width
    \/ x_axis
    \/ x_calendar
    \/ y_axis
    \/ y_calendar
    \/ to_json

Spec == Init /\ [][Next]_vars

-----------------------------------------------------------------------------
(* The claims. *)

FieldNames == {Fields[i].name : i \in 1..Len(Fields)}
OptionNames == {Fields[i].name : i \in OptionFields}
Present(b) == {a \in OptionNames : b[a] # None}
\* to_json has returned the document of the current configuration.
Returned == out # None

\* C1: the document of a configuration has the wire key of an Option field
\* exactly when the field is Some: an absent field contributes no entry at all
\* (no key, hence no null under it), and the document has no other entries than
\* the type tag and the present fields.
C1_SparseEncoding ==
    Returned =>
        LET doc == out[1].doc
            keys == Keys(doc)
        IN  /\ \A i \in OptionFields :
                  (Fields[i].key \in keys) <=> (bar[Fields[i].name] # None)
            /\ Len(doc) = 1 + Cardinality(Present(bar))

C1_Witness ==
    /\ Returned
    /\ bar.opacity = Some(NaN)
    /\ bar.name = Some("")
    /\ bar.marker = None
    /\ Entry(out[1].doc, "opacity").kind = "null"
    /\ "marker" \notin Keys(out[1].doc)

\* C2: a setter call leaves the configuration holding the call's value in the
\* named attribute and equal to the receiver in every other field (x, y and the
\* type tag included); the document of the new configuration differs from the
\* one returned for the receiver only at that attribute's key.
C2_SetterFrame ==
    [][calls' = calls + 1 =>
        LET changed == {f \in Attrs : hist'[f] # hist[f]}
        IN  \E a \in (IF changed = {} THEN Attrs ELSE changed) :
                /\ hist'[a] # None
                /\ hist' = [hist EXCEPT ![a] = hist'[a]]
                /\ bar'[a] = Some(hist'[a][1].val)
                /\ bar' = [bar EXCEPT ![a] = bar'[a]]
                /\ Returned =>
                      \A e \in {Serialize(bar')} :
                          LET doc == out[1].doc
                              keys == Keys(doc)
                          IN  /\ e.ok
                              /\ Keys(e.doc) = keys \cup {WireKey(a)}
                              /\ \A k \in keys \ {WireKey(a)} :
                                    Entry(e.doc, k) = Entry(doc, k)
    ]_vars

C2_Witness ==
    /\ calls = 2
    /\ hist["y_axis"] = Some([val |-> "x2", prior |-> None])
    /\ bar.x_axis = None
    /\ bar.name = Some("Bar")
    /\ bar.y_axis = Some("x2")
    /\ Returned

\* C3: the type tag is PlotType::Bar in every reachable configuration, and every
\* document has the key "type" with the value "bar".
C3_Discriminant ==
    /\ bar.type = "Bar"
    /\ Returned =>
          /\ "type" \in Keys(out[1].doc)
          /\ Entry(out[1].doc, "type").v = "\"bar\""

C3_Witness ==
    /\ calls = 2
    /\ Returned
    /\ Cardinality(Present(bar)) = 4

\* C4: each Dim attribute holds exactly the shape and value of the most recent
\* call of its scalar or array setter, and is written as a bare value after the
\* scalar setter and as an array after the array setter.
C4_LastCallWins ==
    \A a \in DimAttrs :
        hist[a] # None =>
            /\ bar[a] = Some(hist[a][1].val)
            /\ Returned =>
                  LET doc == out[1].doc
                  IN  /\ Cardinality({i \in 1..Len(doc) : doc[i].k = WireKey(a)}) = 1
                      /\ (Entry(doc, WireKey(a)).kind = "array")
                            <=> (hist[a][1].val.shape = "Vector")

C4_Witness ==
    /\ hist["hover_template"] =
          Some([val |-> Vector(<<"tmpl1", "tmpl2">>), prior |-> Some(Scalar("text"))])
    /\ Returned
    /\ Entry(out[1].doc, "hovertemplate").v = "[\"tmpl1\",\"tmpl2\"]"

\* C5: before any setter call every optional attribute is absent; after
\* Bar::new(x, y) the configuration holds x and y and its document has exactly
\* the keys type, x and y; after Bar::default() it has exactly the key type.
C5_ConstructionOnly ==
    calls = 0 =>
        /\ \A a \in Attrs : bar[a] = None
        /\ ctor.op = "new" =>
              /\ bar.x = Some(ctor.x)
              /\ bar.y = Some(ctor.y)
              /\ Returned => Keys(out[1].doc) = {"type", "x", "y"}
        /\ ctor.op = "default" =>
              /\ bar.x = None
              /\ bar.y = None
              /\ Returned => /\ Keys(out[1].doc) = {"type"}
                             /\ out[1].text = "{\"type\":\"bar\"}"

C5_Witness ==
    /\ calls = 0
    /\ ctor.op = "new"
    /\ ctor.x = <<>>
    /\ Returned
    /\ out[1].text = "{\"type\":\"bar\",\"x\":[],\"y\":[3,4]}"

\* C6: a nested attribute set to a sub-configuration with none of its fields
\* set appears in the document under its key as the empty object; one whose
\* setter was never called has no key.
C6_EmptyNested ==
    Returned =>
        LET doc == out[1].doc
            keys == Keys(doc)
        IN  \A a \in NestedAttrs :
                /\ (hist[a] # None /\ hist[a][1].val = EmptySub) =>
                      /\ WireKey(a) \in keys
                      /\ Entry(doc, WireKey(a)).v = "{}"
                      /\ Entry(doc, WireKey(a)).kind = "object"
                /\ hist[a] = None => WireKey(a) \notin keys

C6_Witness ==
    /\ Returned
    /\ hist["marker"] # None
    /\ hist["text_font"] = None
    /\ Entry(out[1].doc, "marker").v = "{}"
    /\ "textfont" \notin Keys(out[1].doc)

\* C7: a to_json call changes no field of the configuration, and a further call
\* on the same configuration returns the same document.
C7_ReadOnlyIdempotent ==
    [][(calls' = calls /\ (out' # None \/ pc' # pc)) =>
          /\ bar' = bar
          /\ (Returned /\ out' # None) => out' = out
    ]_vars

C7_Witness ==
    /\ repeated
    /\ calls = 2
    /\ Returned

\* C8: to_json never ends in a panic: an encoding failure reaches the caller as
\* an error value.
C8_FailureIsRecoverable == pc # "panicked"

\* C9: no step makes a present field absent, x and y keep the presence and
\* value given at construction, and the keys of a returned document are still
\* keys of the document of the configuration a setter makes from it.
C9_PresenceMonotonic ==
    [][ /\ \A f \in OptionNames : bar[f] # None => bar'[f] # None
        /\ bar'.x = bar.x
        /\ bar'.y = bar.y
        /\ bar'.x = (IF ctor.op = "new" THEN Some(ctor.x) ELSE None)
        /\ bar'.y = (IF ctor.op = "new" THEN Some(ctor.y) ELSE None)
        /\ (Returned /\ calls' = calls + 1) =>
              \A e \in {Serialize(bar')} :
                  e.ok /\ Keys(out[1].doc) \subseteq Keys(e.doc)
    ]_vars

C9_Witness ==
    /\ calls = 2
    /\ hist["offset"] = Some([val |-> Vector(<<>>), prior |-> Some(Scalar(5))])
    /\ bar.offset = Some(Vector(<<>>))
    /\ bar.x = Some(<<>>)
    /\ Returned
    /\ Entry(out[1].doc, "offset").v = "[]"

RenameInjective ==
    \A i, j \in 1..Len(Fields) :
        i # j => Fields[i].key # Fields[j].key /\ Fields[i].name # Fields[j].name

\* C10: the renaming gives every field one wire key and no two fields (the type
\* tag included) the same one, so no document has a key twice and every key of
\* a document comes from exactly one field.
C10_RenameBijection ==
    /\ RenameInjective
    /\ Returned =>
          LET doc == out[1].doc
              n == Len(doc)
          IN  /\ \A i, j \in 1..n : i # j => doc[i].k # doc[j].k
              /\ \A i \in 1..n :
                    Cardinality({j \in 1..Len(Fields) : Fields[j].key = doc[i].k}) = 1

C10_Witness ==
    /\ Returned
    /\ bar.hover_text # None
    /\ bar.hover_template # None
    /\ {"hovertext", "hovertemplate"} \subseteq Keys(out[1].doc)

====
